---- MODULE Spec2Model ----
(***************************************************************************)
(* Verification model of two clients of azure-sdk-for-python:              *)
(*   - the async AttestationClient (signer cache, attest operations),      *)
(*   - the async InstancesOperations of the device-update management       *)
(*     client (begin_create / begin_delete and the poller they return).    *)
(* Spec   is the state machine of one AttestationClient used by tasks.     *)
(* SpecLRO is the state machine of begin_create / begin_delete calls.      *)
(* SpecToken applies validate_token to tokens as time passes.              *)
(* SpecClients is the state machine of tasks using several clients.        *)
(***************************************************************************)
EXTENDS Integers, Sequences, FiniteSets, TLC

(* ------------------------------ bounds -------------------------------- *)
NumTasks == 3
MaxCalls == 2
MaxKeys == 2

Tasks == 1..NumTasks

\* Tasks with an odd number run on one event loop (thread), the others on a
\* second one: tasks 1 and 3 share an execution context, task 2 has its own.
LoopOf(t) == IF t % 2 = 1 THEN "loopA" ELSE "loopB"

(* --------------------------- value domains ---------------------------- *)
\* Optional[list]: None is the empty sequence, a list l is <<l>>.
None == <<>>
Some(l) == <<l>>

\* Key descriptors (JSON web keys) the signing-certificates endpoint returns.
KeyDescriptors == {"jwk1", "jwkBad"}

RECURSIVE SeqsUpTo(_, _)
SeqsUpTo(S, n) ==
  IF n = 0 THEN {<<>>}
  ELSE LET shorter == SeqsUpTo(S, n - 1)
       IN shorter \cup {Append(s, x) : s \in {q \in shorter : Len(q) = n - 1}, x \in S}

KeyLists == SeqsUpTo(KeyDescriptors, MaxKeys)

\* AttestationSigner._from_generated(key): builds a signer from a key
\* descriptor; a descriptor whose certificate data cannot be decoded raises.
Convertible(key) == key # "jwkBad"
FromGenerated(key) == [key_id |-> key, certificates |-> <<key>>]

\* Index of the first key of keys whose conversion raises, 0 when none does.
FirstBad(keys) ==
  IF \E i \in 1..Len(keys) : ~Convertible(keys[i])
  THEN CHOOSE i \in 1..Len(keys) :
         /\ ~Convertible(keys[i])
         /\ \A j \in 1..(i - 1) : Convertible(keys[j])
  ELSE 0

\* The list the loop "for key in keys: list.append(_from_generated(key))"
\* has built when it ends, normally or by the first conversion error.
AppendedSigners(keys) ==
  LET n == IF FirstBad(keys) = 0 THEN Len(keys) ELSE FirstBad(keys) - 1
  IN [i \in 1..n |-> FromGenerated(keys[i])]

\* Tokens an attestation response can carry.
Tokens ==
  [wellFormed : {TRUE}, signedBy : {"jwk1", "jwk2"}]
    \cup {[wellFormed |-> FALSE, signedBy |-> "jwk1"]}
NoToken == [wellFormed |-> FALSE, signedBy |-> "none"]

\* token_validation_options of the client configuration.
ValidationOptions == [validate_signature : BOOLEAN]

\* Faulty variant of ChecksPass: the signature is taken as good as soon as
\* there is a signer, whichever key signed the token.
ChecksPassAnySigner(token, opts, signers) ==
  /\ token.wellFormed
  /\ opts.validate_signature => Len(signers) > 0

\* AttestationToken.validate_token(options, signers): every enabled check of
\* the token passes.  A malformed token fails; with signature validation
\* enabled the token must be signed by the key of one of the signers.
ChecksPass(token, opts, signers) ==
  /\ token.wellFormed
  /\ opts.validate_signature =>
       \E i \in 1..Len(signers) : signers[i].key_id = token.signedBy

\* The ways validate_token can end: "true" when every enabled check passes,
\* otherwise either the value "false" or a raised validation error.
ValidateOutcomes(token, opts, signers) ==
  IF ChecksPass(token, opts, signers) THEN {"true"}
  ELSE {"false",
        IF token.wellFormed THEN "TokenValidationError" ELSE "MalformedTokenError"}

(* ------------------------------ results ------------------------------- *)
\* What a finished call handed to its caller.
NoResult == [kind |-> "none", signers |-> <<>>, token |-> NoToken, err |-> ""]
Returned(kind, signers, tok) ==
  [kind |-> kind, signers |-> signers, token |-> tok, err |-> ""]
Raised(err) == [kind |-> "error", signers |-> <<>>, token |-> NoToken, err |-> err]

\* The latest call that ended: whether its _get_signers began before any
\* fetch had settled, how many signing-certificates requests its _get_signers
\* issued, and what the call handed over.
Ended(e, f, res) == [early |-> e, fetches |-> f, res |-> res]
NothingEnded == Ended(FALSE, 0, NoResult)

\* The validate_token call made by the call that ended last: the token, the
\* signers it was given and how it ended; NoValidation when that call made none.
Validation(tok, signers, verdict) ==
  [token |-> tok, signers |-> signers, verdict |-> verdict]
NoValidation == Validation(NoToken, <<>>, "none")

(* ------------------------------- state -------------------------------- *)
VARIABLES
  statelock,      \* self._statelock: 0 when free, else the task holding it
  signing_certificates, \* self._signing_certificates: None or Some(list)
  options,        \* self._config.token_validation_options
  pc,             \* per task: where the task is suspended
  op,             \* per task: the client method the task is running
  token,          \* per task: the token of the attestation response in hand
  early,          \* per task: its _get_signers began before any fetch settled
  result,         \* the latest call that ended (see Ended)
  ncalls,         \* number of client calls started so far
  fetches,        \* per task: requests issued by its current _get_signers call
  gsSucceeded,    \* number of _get_signers fetches that got a response
  settled,        \* some _get_signers fetch has ended, either way
  populatedFrom,  \* key list of the fetch that stored the cache (None before)
  validated       \* the validate_token call of the call that ended last

avars == <<statelock, signing_certificates, options, pc, op, token, early, result,
           ncalls, fetches, gsSucceeded, settled, populatedFrom, validated>>

\* State of the InstancesOperations calls (see the second part).
VARIABLES
  lpc,           \* per call: where the call / the wait on its poller stands
  params,        \* per call: kind of operation and the keywords given
  poller,        \* per call: the poller the call returned
  initialReqs,   \* per call: PUT / DELETE requests sent by the call
  pollReqs,      \* per call: poll requests sent by its poller
  outcome,       \* per call: what begin_* and result() handed over
  saved,         \* the continuation token the caller holds, None before
  nbegins,       \* number of calls made so far
  service,       \* per operation started: its state on the service side
  seen,          \* per call: the responses its poller has processed, in order
  waits,         \* per call: the delays its poller slept before its polls
  outstanding,   \* per call: poll requests of its poller now in flight
  abandoned,     \* the operation whose wait was abandoned last, 0 before
  pages,         \* per call: the pages its list_by_account iteration fetched
  yielded,       \* per call: the items that iteration has yielded, in order
  pageReqs       \* per call: the page requests that iteration has issued

\* The state of a list_by_account iteration.
pvars == <<pages, yielded, pageReqs>>

lvars == <<lpc, params, poller, initialReqs, pollReqs, outcome, saved, nbegins,
           service, seen, waits, outstanding, abandoned, pvars>>

\* State of the token validation against the clock (see the third part).
VARIABLES
  now,            \* the current time
  presented,      \* the token presented to validate_token, with its claims
  expiry_options, \* the token validation options, expiry check included
  tokenVerdict    \* how the latest validate_token call ended, "none" before

tvars == <<now, presented, expiry_options, tokenVerdict>>

\* State of several AttestationClient instances (see the fourth part).
VARIABLES
  locks,          \* per client: its _statelock, 0 or the task holding it
  caches,         \* per client: its _signing_certificates
  clientPc,       \* per task: where it is inside _get_signers of a client
  onClient,       \* per task: the client whose _get_signers it runs, 0 if none
  clientCalls     \* number of _get_signers calls made on the clients

cvars == <<locks, caches, clientPc, onClient, clientCalls>>

AttestOps == {"attest_sgx_enclave", "attest_open_enclave"}
PlainOps == {"attest_tpm", "get_signing_certificates", "get_openidmetadata", "close"}

\* A task blocked inside Lock.acquire() blocks its whole thread: no other
\* task of the same event loop runs until the acquire returns.
LoopBlocked(t) ==
  \E u \in Tasks \ {t} : LoopOf(u) = LoopOf(t) /\ pc[u] = "gs_acquire"

\* AttestationClient.__init__
AInit ==
  /\ statelock = 0
  /\ signing_certificates = None
  /\ options \in ValidationOptions
  /\ pc = [t \in Tasks |-> "idle"]
  /\ op = [t \in Tasks |-> "none"]
  /\ token = [t \in Tasks |-> NoToken]
  /\ early = [t \in Tasks |-> FALSE]
  /\ result = NothingEnded
  /\ ncalls = 0
  /\ fetches = [t \in Tasks |-> 0]
  /\ gsSucceeded = 0
  /\ settled = FALSE
  /\ populatedFrom = None
  /\ validated = NoValidation

\* The call of task t ends and hands res to its caller.
\* Sets pc', op', token', early', fetches', result'.
Finish(t, e, f, res) ==
  /\ pc' = [pc EXCEPT ![t] = "idle"]
  /\ op' = [op EXCEPT ![t] = "none"]
  /\ token' = [token EXCEPT ![t] = NoToken]
  /\ early' = [early EXCEPT ![t] = FALSE]
  /\ fetches' = [fetches EXCEPT ![t] = 0]
  /\ result' = Ended(e, f, res)

(* --------------------------- _get_signers ----------------------------- *)
\* Faulty variant of CacheMiss: the truth value of the list is tested instead
\* ("if not self._signing_certificates"), so an empty list counts as a miss.
CacheMissWhenFalsy(cache) == cache = None \/ cache = Some(<<>>)

\* "if self._signing_certificates is None" (line 226).
CacheMiss(cache) == cache = None

\* Faulty variant of LockAfterWith: acquire() and release() written out without
\* try / finally, so an exception leaves the lock held.
LockLeakedOnRaise(holder, raised) == IF raised THEN holder ELSE 0

\* The value of the lock once control has left "with self._statelock:",
\* by a return or by an exception raised inside the block.
LockAfterWith(holder, raised) == 0

\* Faulty variant of AttestOutcome: the value of validate_token is not tested, only
\* an exception raised by it stops the call.
AttestOutcomeUnchecked(tok, verdict, signers) ==
  IF verdict \in {"true", "false"} THEN Returned("AttestationResponse", signers, tok)
  ELSE Raised(verdict)

\* Lines 148-150 / 199-201: what an attest call hands to its caller, given
\* how validate_token ended for the token tok and the signers.
AttestOutcome(tok, verdict, signers) ==
  IF verdict = "true" THEN Returned("AttestationResponse", signers, tok)
  ELSE IF verdict = "false" THEN Raised("AttestationTokenValidationException")
  ELSE Raised(verdict)

\* _get_signers has returned signers to the code that awaited it: the caller
\* itself for a direct call, lines 148-150 / 199-201 for an attest call.
\* Sets pc', op', token', early', fetches', result', validated'.
AfterSigners(t, o, tok, e, f, signers) ==
  IF o \in AttestOps
  THEN \E verdict \in ValidateOutcomes(tok, options, signers) :
         /\ Finish(t, e, f, AttestOutcome(tok, verdict, signers))
         /\ validated' = Validation(tok, signers, verdict)
  ELSE /\ Finish(t, e, f, Returned("signers", signers, NoToken))
       /\ validated' = NoValidation

\* Lines 226-232, run by task t that has just acquired the lock: on a miss
\* the request is issued and the task suspends holding the lock, on a hit
\* the cached list is returned and the lock released.
\* Sets statelock', fetches', pc', op', token', early', result', validated'.
GetSignersLocked(t, o, tok, e) ==
  IF CacheMiss(signing_certificates)
  THEN /\ statelock' = t
       /\ fetches' = [fetches EXCEPT ![t] = @ + 1]
       /\ pc' = [pc EXCEPT ![t] = "gs_fetch"]
       /\ op' = [op EXCEPT ![t] = o]
       /\ token' = [token EXCEPT ![t] = tok]
       /\ early' = [early EXCEPT ![t] = e]
       /\ UNCHANGED <<result, validated>>
  ELSE /\ statelock' = LockAfterWith(t, FALSE)
       /\ AfterSigners(t, o, tok, e, fetches[t], signing_certificates[1])

\* Line 225, "with self._statelock:": Lock.acquire() returns at once when
\* the lock is free and otherwise blocks the calling thread.
\* Sets statelock', fetches', pc', op', token', early', result', validated'.
EnterGetSigners(t, o, tok) ==
  IF statelock = 0
  THEN GetSignersLocked(t, o, tok, ~settled)
  ELSE /\ pc' = [pc EXCEPT ![t] = "gs_acquire"]
       /\ op' = [op EXCEPT ![t] = o]
       /\ token' = [token EXCEPT ![t] = tok]
       /\ early' = [early EXCEPT ![t] = ~settled]
       /\ UNCHANGED <<statelock, fetches, result, validated>>

\* A task calls _get_signers directly.
CallGetSigners(t) ==
  /\ pc[t] = "idle" /\ ncalls < MaxCalls /\ ~LoopBlocked(t)
  /\ ncalls' = ncalls + 1
  /\ EnterGetSigners(t, "_get_signers", NoToken)
  /\ UNCHANGED <<signing_certificates, options, gsSucceeded, settled, populatedFrom>>
  /\ UNCHANGED <<lvars, tvars, cvars>>

\* The thread blocked in Lock.acquire() gets the lock once it is free.
AcquireLock(t) ==
  /\ pc[t] = "gs_acquire" /\ statelock = 0
  /\ GetSignersLocked(t, op[t], token[t], early[t])
  /\ UNCHANGED <<signing_certificates, options, ncalls, gsSucceeded, settled,
                 populatedFrom>>
  /\ UNCHANGED <<lvars, tvars, cvars>>

\* Faulty variant of CacheAfterFetch: the list is built aside and stored only when
\* every key was converted, so a conversion error leaves the cache None.
CacheAfterFetchAllOrNothing(keys) ==
  IF FirstBad(keys) = 0 THEN Some(AppendedSigners(keys)) ELSE None

\* Lines 228-230: the cache once the loop over the keys of the response has
\* ended; the list is stored before the first signer is appended to it.
CacheAfterFetch(keys) == Some(AppendedSigners(keys))

\* Lines 227-232: the signing-certificates request is answered with keys;
\* the cache is set to a new list, one signer is appended per key until a
\* conversion raises, and the with-block is left.
FetchResponse(t, keys) ==
  /\ pc[t] = "gs_fetch" /\ ~LoopBlocked(t)
  /\ signing_certificates' = CacheAfterFetch(keys)
  /\ populatedFrom' = Some(keys)
  /\ gsSucceeded' = gsSucceeded + 1
  /\ settled' = TRUE
  /\ IF FirstBad(keys) = 0
     THEN /\ statelock' = LockAfterWith(t, FALSE)
          /\ AfterSigners(t, op[t], token[t], early[t], fetches[t],
                          CacheAfterFetch(keys)[1])
     ELSE /\ statelock' = LockAfterWith(t, TRUE)
          /\ Finish(t, early[t], fetches[t], Raised("ConversionError"))
          /\ validated' = NoValidation
  /\ UNCHANGED <<options, ncalls>>
  /\ UNCHANGED <<lvars, tvars, cvars>>

\* Line 227: the signing-certificates request fails; the service error leaves
\* the with-block and _get_signers.
FetchFail(t) ==
  /\ pc[t] = "gs_fetch" /\ ~LoopBlocked(t)
  /\ statelock' = LockAfterWith(t, TRUE)
  /\ settled' = TRUE
  /\ Finish(t, early[t], fetches[t], Raised("HttpResponseError"))
  /\ validated' = NoValidation
  /\ UNCHANGED <<signing_certificates, options, ncalls, gsSucceeded,
                 populatedFrom>>
  /\ UNCHANGED <<lvars, tvars, cvars>>

(* ------------------------- attest operations -------------------------- *)
\* attest_sgx_enclave / attest_open_enclave up to the await of the
\* attestation request (lines 131-145, 184-196).
CallAttest(t, o) ==
  /\ pc[t] = "idle" /\ ncalls < MaxCalls /\ ~LoopBlocked(t)
  /\ o \in AttestOps
  /\ ncalls' = ncalls + 1
  /\ op' = [op EXCEPT ![t] = o]
  /\ pc' = [pc EXCEPT ![t] = "attest_wait"]
  /\ UNCHANGED <<statelock, signing_certificates, options, token, early, result,
                 fetches, gsSucceeded, settled, populatedFrom, validated>>
  /\ UNCHANGED <<lvars, tvars, cvars>>

\* Faulty variant of AttestResponse: with signature validation disabled the
\* signers are not asked for and the token is validated against none.
AttestResponseSkippingSigners(t, tok) ==
  /\ pc[t] = "attest_wait" /\ ~LoopBlocked(t)
  /\ tok \in Tokens
  /\ IF options.validate_signature
     THEN EnterGetSigners(t, op[t], tok)
     ELSE /\ AfterSigners(t, op[t], tok, FALSE, 0, <<>>)
          /\ UNCHANGED statelock
  /\ UNCHANGED <<signing_certificates, options, ncalls, gsSucceeded, settled,
                 populatedFrom>>
  /\ UNCHANGED <<lvars, tvars, cvars>>

\* Lines 145-148 / 196-199: the attestation request is answered with a
\* token; the token object is built and _get_signers is entered.
AttestResponse(t, tok) ==
  /\ pc[t] = "attest_wait" /\ ~LoopBlocked(t)
  /\ tok \in Tokens
  /\ EnterGetSigners(t, op[t], tok)
  /\ UNCHANGED <<signing_certificates, options, ncalls, gsSucceeded, settled,
                 populatedFrom>>
  /\ UNCHANGED <<lvars, tvars, cvars>>

\* Faulty variant of AttestFail: the error of the attestation request is
\* swallowed and the call goes on to _get_signers without a token.
AttestFailThenSigners(t) ==
  /\ pc[t] = "attest_wait" /\ ~LoopBlocked(t)
  /\ EnterGetSigners(t, op[t], NoToken)
  /\ UNCHANGED <<signing_certificates, options, ncalls, gsSucceeded, settled,
                 populatedFrom>>
  /\ UNCHANGED <<lvars, tvars, cvars>>

\* Line 145 / 196: the attestation request fails and the error propagates.
AttestFail(t) ==
  /\ pc[t] = "attest_wait" /\ ~LoopBlocked(t)
  /\ Finish(t, FALSE, 0, Raised("HttpResponseError"))
  /\ validated' = NoValidation
  /\ UNCHANGED <<statelock, signing_certificates, options, ncalls, gsSucceeded,
                 settled, populatedFrom>>
  /\ UNCHANGED <<lvars, tvars, cvars>>

(* -------------------- operations without the cache -------------------- *)
\* get_openidmetadata, get_signing_certificates, attest_tpm, close up to
\* their await (lines 79, 94, 218, 236).
CallPlain(t, o) ==
  /\ pc[t] = "idle" /\ ncalls < MaxCalls /\ ~LoopBlocked(t)
  /\ o \in PlainOps
  /\ ncalls' = ncalls + 1
  /\ op' = [op EXCEPT ![t] = o]
  /\ pc' = [pc EXCEPT ![t] = "plain_wait"]
  /\ UNCHANGED <<statelock, signing_certificates, options, token, early, result,
                 fetches, gsSucceeded, settled, populatedFrom, validated>>
  /\ UNCHANGED <<lvars, tvars, cvars>>

\* Faulty variant of SigningCertificatesResponse: the list built is also stored
\* in the cache of _get_signers.
SigningCertificatesResponseStored(t, keys) ==
  /\ pc[t] = "plain_wait" /\ op[t] = "get_signing_certificates" /\ ~LoopBlocked(t)
  /\ Finish(t, FALSE, 0,
            IF FirstBad(keys) = 0
            THEN Returned("signing_certificates", AppendedSigners(keys), NoToken)
            ELSE Raised("ConversionError"))
  /\ validated' = NoValidation
  /\ signing_certificates' = Some(AppendedSigners(keys))
  /\ UNCHANGED <<statelock, options, ncalls, gsSucceeded, settled, populatedFrom>>
  /\ UNCHANGED <<lvars, tvars, cvars>>

\* get_signing_certificates, lines 94-98: a new list is built from the keys
\* of the response and returned.
SigningCertificatesResponse(t, keys) ==
  /\ pc[t] = "plain_wait" /\ op[t] = "get_signing_certificates" /\ ~LoopBlocked(t)
  /\ Finish(t, FALSE, 0,
            IF FirstBad(keys) = 0
            THEN Returned("signing_certificates", AppendedSigners(keys), NoToken)
            ELSE Raised("ConversionError"))
  /\ validated' = NoValidation
  /\ UNCHANGED <<statelock, signing_certificates, options, ncalls, gsSucceeded,
                 settled, populatedFrom>>
  /\ UNCHANGED <<lvars, tvars, cvars>>

\* get_openidmetadata, attest_tpm and close return what the generated client
\* answered (lines 79, 218-219, 236).
PlainResponse(t) ==
  /\ pc[t] = "plain_wait" /\ op[t] # "get_signing_certificates" /\ ~LoopBlocked(t)
  /\ Finish(t, FALSE, 0, Returned("value", <<>>, NoToken))
  /\ validated' = NoValidation
  /\ UNCHANGED <<statelock, signing_certificates, options, ncalls, gsSucceeded,
                 settled, populatedFrom>>
  /\ UNCHANGED <<lvars, tvars, cvars>>

\* The request of one of these operations fails and the error propagates.
PlainFail(t) ==
  /\ pc[t] = "plain_wait" /\ ~LoopBlocked(t)
  /\ Finish(t, FALSE, 0, Raised("HttpResponseError"))
  /\ validated' = NoValidation
  /\ UNCHANGED <<statelock, signing_certificates, options, ncalls, gsSucceeded,
                 settled, populatedFrom>>
  /\ UNCHANGED <<lvars, tvars, cvars>>

\* Faulty variant of Cancel: the cancellation ends the task where it is
\* suspended without unwinding the with-block, so the lock stays held.
CancelWithoutUnwinding(t) ==
  /\ pc[t] \in {"attest_wait", "plain_wait", "gs_fetch"} /\ ~LoopBlocked(t)
  /\ Finish(t, early[t], fetches[t], Raised("CancelledError"))
  /\ validated' = NoValidation
  /\ settled' = (settled \/ pc[t] = "gs_fetch")
  /\ UNCHANGED <<statelock, signing_certificates, options, ncalls, gsSucceeded,
                 populatedFrom>>
  /\ UNCHANGED <<lvars, tvars, cvars>>

\* The task is cancelled while suspended on a request: CancelledError is
\* raised at the await; inside _get_signers it leaves the with-block.
Cancel(t) ==
  /\ pc[t] \in {"attest_wait", "plain_wait", "gs_fetch"} /\ ~LoopBlocked(t)
  /\ Finish(t, early[t], fetches[t], Raised("CancelledError"))
  /\ validated' = NoValidation
  /\ statelock' = IF pc[t] = "gs_fetch" THEN LockAfterWith(t, TRUE) ELSE statelock
  /\ settled' = (settled \/ pc[t] = "gs_fetch")
  /\ UNCHANGED <<signing_certificates, options, ncalls, gsSucceeded,
                 populatedFrom>>
  /\ UNCHANGED <<lvars, tvars, cvars>>

ANext ==
  \E t \in Tasks :
    \/ CallGetSigners(t)
    \/ AcquireLock(t)
    \/ \E keys \in KeyLists : FetchResponse(t, keys)
    \/ FetchFail(t)
    \/ \E o \in AttestOps : CallAttest(t, o)
    \/ \E tok \in Tokens : AttestResponse(t, tok)
    \/ AttestFail(t)
    \/ \E o \in PlainOps : CallPlain(t, o)
    \/ \E keys \in KeyLists : SigningCertificatesResponse(t, keys)
    \/ PlainResponse(t)
    \/ PlainFail(t)
    \/ Cancel(t)

(***************************************************************************)
(* InstancesOperations: begin_create / begin_delete and their pollers,     *)
(* get, head, update and list_by_account                                   *)
(***************************************************************************)
MaxBegins == 2
MaxPolls == 2
ConfigPollingInterval == 3

\* The caller drives one call at a time (calls share no state): the call
\* slot is taken by a call and is taken again by the next call once the
\* call has raised or nobody awaits its poller any more.
Calls == {1}

\* Operations started on the service are numbered by the call that started
\* them.
Operations == 1..MaxBegins

\* Values of the keywords of a begin_* call.
Pollings == {"True", "False", "object"}
Intervals == {None, Some(2)}
RetryAfters == {None, Some(1)}
TerminalStates == {"Succeeded", "Failed", "Canceled"}
PollerStates == {"NotStarted", "InProgress"} \cup TerminalStates

\* Initial responses of the service: a status code, whether the body
\* already shows the operation finished, and the Retry-After header.  202
\* Accepted never shows it finished, 204 No Content always does; an error
\* response shows nothing of the operation, and only a response showing the
\* operation in progress says when to ask again.  body_ok tells whether the
\* body of the response can be deserialized; the body of an error response
\* may be unreadable.
StatusCodes == {200, 201, 202, 204, 401, 404, 409, 500}
InitialResponses ==
  {r \in [status_code : StatusCodes, finished : BOOLEAN, retry_after : RetryAfters,
          body_ok : BOOLEAN] :
     /\ r.status_code < 400 => r.body_ok
     /\ r.status_code = 202 => ~r.finished
     /\ r.status_code = 204 => r.finished
     /\ r.status_code >= 400 => ~r.finished
     /\ (r.status_code >= 400 \/ r.finished) => r.retry_after = None}

\* A continuation token is a string: "" is the empty sequence, any other
\* token holds the snapshot of a poller.
EmptyString == <<>>

NoPoller ==
  [method |-> "none", final_state_via |-> "none", status |-> "NotStarted",
   delay |-> 0, default_delay |-> 0, resumed |-> FALSE,
   initial_response |-> None, operation |-> 0]
NoParams ==
  [kind |-> "none", polling |-> "True", continuation_token |-> None,
   polling_interval |-> None]

\* What a call handed over: begin is what the call itself returned or
\* raised, status_code the status of the response that decided it (0 when no
\* response did), model the deserialized error body an error raised from a
\* response carries, result what result() of the poller returned or raised.
Outcome(begin, status_code, model) ==
  [begin |-> begin, status_code |-> status_code, model |-> model, result |-> "none"]
NoOutcome == Outcome("none", 0, "none")

LInit ==
  /\ lpc = [c \in Calls |-> "new"]
  /\ params = [c \in Calls |-> NoParams]
  /\ poller = [c \in Calls |-> NoPoller]
  /\ initialReqs = [c \in Calls |-> 0]
  /\ pollReqs = [c \in Calls |-> 0]
  /\ outcome = [c \in Calls |-> NoOutcome]
  /\ saved = None
  /\ nbegins = 0
  /\ service = [o \in Operations |-> "none"]
  /\ seen = [c \in Calls |-> <<>>]
  /\ waits = [c \in Calls |-> <<>>]
  /\ outstanding = [c \in Calls |-> 0]
  /\ abandoned = 0
  /\ pages = [c \in Calls |-> <<>>]
  /\ yielded = [c \in Calls |-> <<>>]
  /\ pageReqs = [c \in Calls |-> 0]

(* ------------------- begin_create / begin_delete ---------------------- *)
\* Faulty variant of LroDelay: the keyword is ignored.
LroDelayConfigOnly(polling_interval) == ConfigPollingInterval

\* Lines 434 / 548: kwargs.pop("polling_interval", self._config.polling_interval).
LroDelay(polling_interval) ==
  IF polling_interval = None THEN ConfigPollingInterval ELSE polling_interval[1]

\* Faulty variant of NeedsInitial: the initial request is sent whatever the token.
NeedsInitialAlways(cont_token) == TRUE

\* Lines 436 / 550: "if cont_token is None".
NeedsInitial(cont_token) == cont_token = None

\* Lines 466 / 575: "if cont_token:", the truth value of an optional string.
Truthy(cont_token) == cont_token # None /\ cont_token[1] # EmptyString

\* Faulty variant of AcceptedStatus: the initial request of create is accepted
\* with 200 and 202 as well.
AcceptedStatusCreateAnySuccess(kind) ==
  CASE kind = "create" -> {200, 201, 202}
    [] kind = "delete" -> {200, 202, 204}
    [] OTHER -> {200}

\* Faulty variant of AcceptedStatus: head takes every answer that tells whether
\* the instance exists, the other 2xx codes and 404 included.
AcceptedStatusHeadExistence(kind) ==
  CASE kind = "create" -> {201}
    [] kind = "delete" -> {200, 202, 204}
    [] kind = "head" -> {200, 201, 202, 204, 404}
    [] OTHER -> {200}

\* The status codes an operation accepts: lines 302 (_create_initial), 508
\* (_delete_initial), 186 (get), 243 (head), 713 (update), 130 (a page of
\* list_by_account).
AcceptedStatus(kind) ==
  CASE kind = "create" -> {201}
    [] kind = "delete" -> {200, 202, 204}
    [] OTHER -> {200}

\* Faulty variant of MapError: the error map lacks the entry for 409.
MapErrorWithoutConflict(status_code) ==
  CASE status_code = 401 -> "ClientAuthenticationError"
    [] status_code = 404 -> "ResourceNotFoundError"
    [] OTHER -> "HttpResponseError"

\* Lines 262, 303-305 / 480, 509-511 (and 158, 187-189; 215, 244-246; 673,
\* 714-716; 86, 131-133): map_error with the default error map, then the
\* generic error.
MapError(status_code) ==
  CASE status_code = 401 -> "ClientAuthenticationError"
    [] status_code = 404 -> "ResourceNotFoundError"
    [] status_code = 409 -> "ResourceExistsError"
    [] OTHER -> "HttpResponseError"

\* Lines 303-305 and alike: the model the raised error carries.  map_error
\* raises the mapped error from the response alone; the generic error gets
\* the result of failsafe_deserialize, which is None for an unreadable body.
ErrorModel(status_code, body_ok) ==
  IF MapError(status_code) # "HttpResponseError" THEN "none"
  ELSE IF body_ok THEN "ErrorResponse" ELSE "None"

\* A polling object of the caller's own, with its own interval.
CallerPollingObject ==
  [method |-> "object", final_state_via |-> "none", default_delay |-> 1]

\* Faulty variant of PollingMethod: "if polling is True ... else" without the test
\* for False, which then gets the default polling as well.
PollingMethodWithoutFalse(kind, polling, lro_delay) ==
  IF polling \in {"True", "False"}
  THEN [method |-> "AsyncARMPolling",
        final_state_via |-> IF kind = "create" THEN "azure-async-operation"
                            ELSE "location",
        default_delay |-> lro_delay]
  ELSE CallerPollingObject

\* Faulty variant of PollingMethod: begin_delete takes the final state the way
\* begin_create does.
PollingMethodSameFinalState(kind, polling, lro_delay) ==
  IF polling = "True"
  THEN [method |-> "AsyncARMPolling", final_state_via |-> "azure-async-operation",
        default_delay |-> lro_delay]
  ELSE IF polling = "False"
  THEN [method |-> "AsyncNoPolling", final_state_via |-> "none", default_delay |-> 0]
  ELSE CallerPollingObject

\* Lines 457-465 / 567-574: the polling method chosen from the polling keyword.
PollingMethod(kind, polling, lro_delay) ==
  IF polling = "True"
  THEN [method |-> "AsyncARMPolling",
        final_state_via |-> IF kind = "create" THEN "azure-async-operation"
                            ELSE "location",
        default_delay |-> lro_delay]
  ELSE IF polling = "False"
  THEN [method |-> "AsyncNoPolling", final_state_via |-> "none", default_delay |-> 0]
  ELSE CallerPollingObject

(* ------------------------------ poller -------------------------------- *)
\* Faulty variant of InitialStatus: every polling method but the non-polling one
\* starts InProgress, whatever the initial response shows.
InitialStatusAlwaysPolling(method, response) ==
  IF method = "AsyncNoPolling" THEN "Succeeded" ELSE "InProgress"

\* The status a polling method takes from the initial response: the
\* non-polling method reports Succeeded at once, the others report Succeeded
\* when the response already shows the operation finished.
InitialStatus(method, response) ==
  IF method = "AsyncNoPolling" \/ response.finished THEN "Succeeded" ELSE "InProgress"

\* Faulty variant of NextDelay: the Retry-After header is not read.
NextDelayDefaultOnly(retry_after, default_delay) == default_delay

\* The delay before the next poll: the Retry-After value of the response
\* just processed, or else the default interval of the polling method.
NextDelay(retry_after, default_delay) ==
  IF retry_after = None THEN default_delay ELSE retry_after[1]

\* AsyncLROPoller(client, raw_result, callback, polling_method): the poller
\* keeps the initial response and starts in the status read from it.
NewPoller(pm, response, operation) ==
  [method |-> pm.method, final_state_via |-> pm.final_state_via,
   status |-> InitialStatus(pm.method, response),
   delay |-> NextDelay(response.retry_after, pm.default_delay),
   default_delay |-> pm.default_delay,
   resumed |-> FALSE, initial_response |-> Some(response),
   operation |-> operation]

\* Faulty variant of ContinuationTokenOf: the token only names the operation, the
\* last status and delay are not kept.
ContinuationTokenInitialOnly(p) ==
  <<[status |-> "InProgress", delay |-> p.default_delay, operation |-> p.operation]>>

\* poller.continuation_token(): a non-empty string holding the operation
\* state of the poller: the operation polled, the last status and delay.
ContinuationTokenOf(p) ==
  <<[status |-> p.status, delay |-> p.delay, operation |-> p.operation]>>

\* AsyncLROPoller.from_continuation_token(polling_method, token, ...).
FromContinuationToken(pm, tok) ==
  [method |-> pm.method, final_state_via |-> pm.final_state_via,
   status |-> IF pm.method = "AsyncNoPolling" THEN "Succeeded" ELSE tok[1].status,
   delay |-> tok[1].delay, default_delay |-> pm.default_delay,
   resumed |-> TRUE, initial_response |-> None,
   operation |-> tok[1].operation]

\* Faulty variant of Done: only success ends the polling.
DoneOnlySucceeded(p) == p.status = "Succeeded"

\* poller.done()
Done(p) == p.status \in TerminalStates

\* The poller after it has processed a poll response showing status, with
\* the Retry-After header retry_after.
Polled(p, status, retry_after) ==
  [p EXCEPT !.status = status,
            !.delay = NextDelay(retry_after, p.default_delay)]

\* Faulty variant of ResultOf: the output of get_long_running_output is handed
\* over whatever the terminal state.
ResultOfAnyState(kind, p) ==
  IF Done(p) THEN (IF kind = "create" THEN "Instance" ELSE "None") ELSE "none"

\* What result() hands over for a terminal poller: the output of
\* get_long_running_output (lines 451-455 / 563-565, cls not given) when the
\* operation succeeded, the captured error otherwise.
ResultOf(kind, p) ==
  CASE p.status = "Succeeded" -> IF kind = "create" THEN "Instance" ELSE "None"
    [] p.status = "Failed" -> "OperationFailedError"
    [] p.status = "Canceled" -> "OperationCanceledError"
    [] OTHER -> "none"

\* Faulty variant of CanIssuePoll: a poll is also issued while one is in flight.
CanIssuePollAnytime(where) == where \in {"delay", "poll_wait"}

\* The poll loop of a poller issues a poll only when the delay computed from
\* the response processed last has been slept.
CanIssuePoll(where) == where = "delay"

\* Faulty variant of AfterPollError: the error of a poll is swallowed and the
\* loop goes on to its next delay.
AfterPollErrorRetry(where) == "delay"

\* Where the wait on a poller stands once a poll has raised: the error
\* leaves the poll loop and result().
AfterPollError(where) == "finished"

\* What a response shows of the operation, as the poller records it.
Shown(status, retry_after) == [status |-> status, retry_after |-> retry_after]

\* Lines 457-473 / 567-582, run once raw_result is bound or skipped: the
\* polling method is chosen and the poller is resumed from the token or
\* built from raw_result; raw is the local raw_result, None while it is
\* unbound (the initial request was skipped); operation is the operation the
\* accepted initial request started.  Sets lpc', poller', outcome', seen'.
BuildPoller(c, prm, raw, operation) ==
  LET pm == PollingMethod(prm.kind, prm.polling, LroDelay(prm.polling_interval))
  IN IF Truthy(prm.continuation_token)
     THEN /\ poller' = [poller EXCEPT ![c] =
                          FromContinuationToken(pm, prm.continuation_token[1])]
          /\ lpc' = [lpc EXCEPT ![c] = "ready"]
          /\ outcome' = [outcome EXCEPT ![c] = Outcome("poller", 0, "none")]
          /\ seen' = [seen EXCEPT ![c] = <<>>]
     ELSE IF raw = None
     THEN /\ lpc' = [lpc EXCEPT ![c] = "raised"]
          /\ outcome' = [outcome EXCEPT ![c] = Outcome("UnboundLocalError", 0, "none")]
          /\ poller' = [poller EXCEPT ![c] = NoPoller]
          /\ seen' = [seen EXCEPT ![c] = <<>>]
     ELSE /\ poller' = [poller EXCEPT ![c] = NewPoller(pm, raw[1], operation)]
          /\ lpc' = [lpc EXCEPT ![c] = "ready"]
          /\ outcome' = [outcome EXCEPT ![c] =
                           Outcome("poller", raw[1].status_code, "none")]
          /\ seen' = [seen EXCEPT ![c] =
                        <<Shown(IF raw[1].finished THEN "Succeeded" ELSE "InProgress",
                                raw[1].retry_after)>>]

\* begin_create / begin_delete with the keywords prm, up to the await of
\* the initial request (lines 427-448 / 542-560), or to their end when the
\* request is skipped.  Sets params', initialReqs', pollReqs', lpc',
\* poller', outcome', seen', waits', outstanding'.
BeginWith(c, prm) ==
  /\ params' = [params EXCEPT ![c] = prm]
  /\ pollReqs' = [pollReqs EXCEPT ![c] = 0]
  /\ waits' = [waits EXCEPT ![c] = <<>>]
  /\ outstanding' = [outstanding EXCEPT ![c] = 0]
  /\ IF NeedsInitial(prm.continuation_token)
     THEN /\ initialReqs' = [initialReqs EXCEPT ![c] = 1]
          /\ lpc' = [lpc EXCEPT ![c] = "initial_wait"]
          /\ poller' = [poller EXCEPT ![c] = NoPoller]
          /\ outcome' = [outcome EXCEPT ![c] = NoOutcome]
          /\ seen' = [seen EXCEPT ![c] = <<>>]
     ELSE /\ BuildPoller(c, prm, None, 0)
          /\ initialReqs' = [initialReqs EXCEPT ![c] = 0]

\* The operation of the token the caller holds, 0 when it holds none.
TokenOperation == IF saved = None THEN 0 ELSE saved[1][1].operation

\* A call takes the call slot: what was in the slot is dropped, and the
\* state of an operation that neither a poller nor the token refers to is not
\* tracked any more.  Sets nbegins', service', abandoned', pvars', saved'.
TakeSlot(c) ==
  /\ nbegins' = nbegins + 1
  /\ service' = [o \in Operations |-> IF TokenOperation = o THEN service[o] ELSE "none"]
  /\ abandoned' = IF abandoned = TokenOperation THEN abandoned ELSE 0
  /\ pages' = [pages EXCEPT ![c] = <<>>]
  /\ yielded' = [yielded EXCEPT ![c] = <<>>]
  /\ pageReqs' = [pageReqs EXCEPT ![c] = 0]
  /\ UNCHANGED saved

\* The call slot is free for the next call.
SlotFree(c) == lpc[c] \in {"new", "raised", "returned", "ready", "finished"}

\* A caller starts begin_create / begin_delete: the kind of operation, the
\* polling and polling_interval keywords, and the continuation_token keyword
\* (absent, the empty string, or the token the caller holds).  polling_interval
\* is only given together with the default polling, the others ignore it.
Begin(c, kind, polling, polling_interval, given) ==
  /\ SlotFree(c)
  /\ nbegins < MaxBegins
  /\ polling # "True" => polling_interval = None
  /\ given = "saved" => saved # None
  /\ LET prm == [kind |-> kind, polling |-> polling,
                 polling_interval |-> polling_interval,
                 continuation_token |->
                   CASE given = "absent" -> None
                     [] given = "empty" -> Some(EmptyString)
                     [] OTHER -> saved]
     IN BeginWith(c, prm)
  /\ TakeSlot(c)
  /\ UNCHANGED <<avars, tvars, cvars>>

\* _create_initial / _delete_initial from the answer of the pipeline on
\* (lines 300-312 / 506-514), then the rest of begin_*.  An accepted request
\* has started the operation on the service.
InitialResponse(c, response) ==
  /\ lpc[c] = "initial_wait"
  /\ IF response.status_code \notin AcceptedStatus(params[c].kind)
     THEN /\ lpc' = [lpc EXCEPT ![c] = "raised"]
          /\ outcome' = [outcome EXCEPT ![c] =
                           Outcome(MapError(response.status_code), response.status_code,
                                   ErrorModel(response.status_code, response.body_ok))]
          /\ UNCHANGED <<poller, seen, service>>
     ELSE /\ BuildPoller(c, params[c], Some(response), nbegins)
          /\ service' = [service EXCEPT ![nbegins] =
                           IF response.finished THEN "Succeeded" ELSE "InProgress"]
  /\ UNCHANGED <<params, initialReqs, pollReqs, saved, nbegins, waits,
                 outstanding, abandoned>>
  /\ UNCHANGED <<avars, pvars, tvars, cvars>>

\* The pipeline raises instead of answering the initial request.
InitialError(c) ==
  /\ lpc[c] = "initial_wait"
  /\ lpc' = [lpc EXCEPT ![c] = "raised"]
  /\ outcome' = [outcome EXCEPT ![c].begin = "ServiceRequestError"]
  /\ UNCHANGED <<params, poller, initialReqs, pollReqs, saved, nbegins, service,
                 seen, waits, outstanding, abandoned>>
  /\ UNCHANGED <<avars, pvars, tvars, cvars>>

\* An operation somebody can still observe: the one of the poller in the
\* call slot or the one of the token the caller holds.
Attached(o) ==
  \/ \E c \in Calls : poller[c].operation = o
  \/ TokenOperation = o

\* The service finishes an operation in progress, in one of the terminal
\* states.
ServiceFinishes(o, state) ==
  /\ service[o] = "InProgress" /\ Attached(o)
  /\ state \in TerminalStates
  /\ service' = [service EXCEPT ![o] = state]
  /\ UNCHANGED <<lpc, params, poller, initialReqs, pollReqs, outcome, saved,
                 nbegins, seen, waits, outstanding, abandoned>>
  /\ UNCHANGED <<avars, pvars, tvars, cvars>>

\* The caller awaits poller.result(): it returns at once for a terminal
\* poller and otherwise waits the delay before the next poll.
AwaitResult(c) ==
  /\ lpc[c] = "ready"
  /\ IF Done(poller[c])
     THEN /\ lpc' = [lpc EXCEPT ![c] = "finished"]
          /\ outcome' = [outcome EXCEPT ![c].result = ResultOf(params[c].kind, poller[c])]
     ELSE /\ lpc' = [lpc EXCEPT ![c] = "delay"]
          /\ UNCHANGED outcome
  /\ UNCHANGED <<params, poller, initialReqs, pollReqs, saved, nbegins, service,
                 seen, waits, outstanding, abandoned>>
  /\ UNCHANGED <<avars, pvars, tvars, cvars>>

\* The delay has been slept: one poll request is issued.
DelayElapsed(c) ==
  /\ CanIssuePoll(lpc[c]) /\ pollReqs[c] < MaxPolls
  /\ pollReqs' = [pollReqs EXCEPT ![c] = @ + 1]
  /\ waits' = [waits EXCEPT ![c] = Append(@, poller[c].delay)]
  /\ outstanding' = [outstanding EXCEPT ![c] = @ + 1]
  /\ lpc' = [lpc EXCEPT ![c] = "poll_wait"]
  /\ UNCHANGED <<params, poller, initialReqs, outcome, saved, nbegins, service,
                 seen, abandoned>>
  /\ UNCHANGED <<avars, pvars, tvars, cvars>>

\* The poll is answered with the state of the operation on the service: the
\* status is updated and the next delay taken from Retry-After or else the
\* default interval.
PollResponse(c, retry_after) ==
  /\ lpc[c] = "poll_wait"
  /\ service[poller[c].operation] \in TerminalStates => retry_after = None
  /\ LET status == service[poller[c].operation]
         p == Polled(poller[c], status, retry_after)
     IN /\ poller' = [poller EXCEPT ![c] = p]
        /\ seen' = [seen EXCEPT ![c] = Append(@, Shown(status, retry_after))]
        /\ IF Done(p)
           THEN /\ lpc' = [lpc EXCEPT ![c] = "finished"]
                /\ outcome' = [outcome EXCEPT ![c].result = ResultOf(params[c].kind, p)]
           ELSE /\ lpc' = [lpc EXCEPT ![c] = "delay"]
                /\ UNCHANGED outcome
  /\ outstanding' = [outstanding EXCEPT ![c] = @ - 1]
  /\ UNCHANGED <<params, initialReqs, pollReqs, saved, nbegins, service, waits,
                 abandoned>>
  /\ UNCHANGED <<avars, pvars, tvars, cvars>>

\* The poll fails with an error that escaped the retries of the transport.
PollError(c) ==
  /\ lpc[c] = "poll_wait"
  /\ lpc' = [lpc EXCEPT ![c] = AfterPollError(lpc[c])]
  /\ outcome' = [outcome EXCEPT ![c].result = "HttpResponseError"]
  /\ outstanding' = [outstanding EXCEPT ![c] = @ - 1]
  /\ UNCHANGED <<params, poller, initialReqs, pollReqs, saved, nbegins, service,
                 seen, waits, abandoned>>
  /\ UNCHANGED <<avars, pvars, tvars, cvars>>

\* Faulty variant of AfterAbandon: abandoning the wait cancels the operation.
CanceledByAbandon(state) == IF state = "InProgress" THEN "Canceled" ELSE state

\* The state of an operation on the service once the wait on its poller has
\* been abandoned: nothing was sent, the operation is where it was.
AfterAbandon(state) == state

\* The task awaiting result() is cancelled, and with it the poll it may have
\* in flight; the poller stays as it is and nothing is sent to the service.
Abandon(c) ==
  /\ lpc[c] \in {"delay", "poll_wait"}
  /\ lpc' = [lpc EXCEPT ![c] = "ready"]
  /\ outstanding' = [outstanding EXCEPT ![c] = 0]
  /\ abandoned' = poller[c].operation
  /\ service' = [service EXCEPT ![poller[c].operation] = AfterAbandon(@)]
  /\ UNCHANGED <<params, poller, initialReqs, pollReqs, outcome, saved, nbegins,
                 seen, waits>>
  /\ UNCHANGED <<avars, pvars, tvars, cvars>>

\* The caller takes poller.continuation_token() and keeps it.
TakeToken(c) ==
  /\ lpc[c] \in {"ready", "delay", "poll_wait", "finished"}
  /\ saved = None
  /\ saved' = Some(ContinuationTokenOf(poller[c]))
  /\ UNCHANGED <<lpc, params, poller, initialReqs, pollReqs, outcome, nbegins,
                 service, seen, waits, outstanding, abandoned>>
  /\ UNCHANGED <<avars, pvars, tvars, cvars>>

(* ------------------------ get, head, update --------------------------- *)
PlainKinds == {"get", "head", "update"}

\* What the operation returns for an accepted response: the deserialized
\* Instance (lines 191-196, 718-723), for head the test of line 250.
ReturnOf(kind, status_code) ==
  IF kind = "head"
  THEN (IF 200 <= status_code /\ status_code <= 299 THEN "True" ELSE "False")
  ELSE "Instance"

\* get, head or update up to the await of its request (lines 158-182,
\* 215-239, 673-709).
Call(c, kind) ==
  /\ SlotFree(c)
  /\ nbegins < MaxBegins
  /\ kind \in PlainKinds
  /\ TakeSlot(c)
  /\ params' = [params EXCEPT ![c] = [NoParams EXCEPT !.kind = kind]]
  /\ lpc' = [lpc EXCEPT ![c] = "op_wait"]
  /\ poller' = [poller EXCEPT ![c] = NoPoller]
  /\ outcome' = [outcome EXCEPT ![c] = NoOutcome]
  /\ initialReqs' = [initialReqs EXCEPT ![c] = 1]
  /\ pollReqs' = [pollReqs EXCEPT ![c] = 0]
  /\ seen' = [seen EXCEPT ![c] = <<>>]
  /\ waits' = [waits EXCEPT ![c] = <<>>]
  /\ outstanding' = [outstanding EXCEPT ![c] = 0]
  /\ UNCHANGED <<avars, tvars, cvars>>

\* The request of get, head or update is answered (lines 184-196, 241-250,
\* 711-723): a status outside the accepted ones raises the mapped or the
\* generic error, an accepted one returns.
OpResponse(c, status_code, body_ok) ==
  /\ lpc[c] = "op_wait"
  /\ status_code < 400 => body_ok
  /\ IF status_code \notin AcceptedStatus(params[c].kind)
     THEN /\ lpc' = [lpc EXCEPT ![c] = "raised"]
          /\ outcome' = [outcome EXCEPT ![c] =
                           Outcome(MapError(status_code), status_code,
                                   ErrorModel(status_code, body_ok))]
     ELSE /\ lpc' = [lpc EXCEPT ![c] = "returned"]
          /\ outcome' = [outcome EXCEPT ![c] =
                           Outcome(ReturnOf(params[c].kind, status_code),
                                   status_code, "none")]
  /\ UNCHANGED <<params, poller, initialReqs, pollReqs, saved, nbegins, service,
                 seen, waits, outstanding, abandoned>>
  /\ UNCHANGED <<avars, pvars, tvars, cvars>>

\* The pipeline raises instead of answering the request (lines 180, 237, 707).
OpError(c) ==
  /\ lpc[c] = "op_wait"
  /\ lpc' = [lpc EXCEPT ![c] = "raised"]
  /\ outcome' = [outcome EXCEPT ![c] = Outcome("ServiceRequestError", 0, "none")]
  /\ UNCHANGED <<params, poller, initialReqs, pollReqs, saved, nbegins, service,
                 seen, waits, outstanding, abandoned>>
  /\ UNCHANGED <<avars, pvars, tvars, cvars>>

(* -------------------------- list_by_account --------------------------- *)
MaxPages == 3
MaxItems == 2

\* The next_link of a page: None when absent, Some(0) for the empty string,
\* Some(k) for the link to page k of the listing.
Links == {None} \cup {Some(k) : k \in 0..MaxPages}

\* "not next_link", "next_link or None": the truth value of an optional string.
HasLink(next_link) == next_link # None /\ next_link[1] # 0

\* Faulty variant of ExtractLink: next_link is handed over as it is.
ExtractLinkAsIs(next_link) == next_link

\* Line 120, "deserialized.next_link or None": the continuation token
\* extract_data hands to the pager.
ExtractLink(next_link) == IF HasLink(next_link) THEN next_link ELSE None

\* The continuation token the pager of call c holds: None before the first
\* page, then what extract_data made of the page fetched last.
Continuation(c) ==
  IF pages[c] = <<>> THEN None
  ELSE ExtractLink(pages[c][Len(pages[c])].next_link)

\* Lines 89-113, prepare_request: the page a request for next_link asks for,
\* the first page when next_link is None or empty.
PageAskedFor(next_link) == IF HasLink(next_link) THEN next_link[1] ELSE 1

\* The items of page number with size items, in the order of the page.
ItemsOf(number, size) == [i \in 1..size |-> <<number, i>>]

\* list_by_account (lines 81-137): no request is sent, the pager is returned.
CallList(c) ==
  /\ SlotFree(c)
  /\ nbegins < MaxBegins
  /\ TakeSlot(c)
  /\ params' = [params EXCEPT ![c] = [NoParams EXCEPT !.kind = "list_by_account"]]
  /\ lpc' = [lpc EXCEPT ![c] = "iterating"]
  /\ poller' = [poller EXCEPT ![c] = NoPoller]
  /\ outcome' = [outcome EXCEPT ![c] = Outcome("AsyncItemPaged", 0, "none")]
  /\ initialReqs' = [initialReqs EXCEPT ![c] = 0]
  /\ pollReqs' = [pollReqs EXCEPT ![c] = 0]
  /\ seen' = [seen EXCEPT ![c] = <<>>]
  /\ waits' = [waits EXCEPT ![c] = <<>>]
  /\ outstanding' = [outstanding EXCEPT ![c] = 0]
  /\ UNCHANGED <<avars, tvars, cvars>>

\* The consumer asks for more than was yielded: the pager calls get_next with
\* its continuation token (lines 122-127), on the first call or while the
\* token is not None.
RequestPage(c) ==
  /\ lpc[c] = "iterating"
  /\ pages[c] = <<>> \/ Continuation(c) # None
  /\ pageReqs' = [pageReqs EXCEPT ![c] = @ + 1]
  /\ lpc' = [lpc EXCEPT ![c] = "page_wait"]
  /\ UNCHANGED <<params, poller, initialReqs, pollReqs, outcome, saved, nbegins,
                 service, seen, waits, outstanding, abandoned, pages, yielded>>
  /\ UNCHANGED <<avars, tvars, cvars>>

\* The page request is answered (lines 128-135, then extract_data 115-120):
\* a status other than 200 raises; else the page asked for arrives, with size
\* items and next_link, and its items are yielded in order.  The listing has
\* at most MaxPages pages: a page links to the page after it or to none.
PageResponse(c, status_code, body_ok, size, next_link) ==
  /\ lpc[c] = "page_wait"
  /\ status_code < 400 => body_ok
  /\ LET number == PageAskedFor(Continuation(c))
     IN IF status_code \notin AcceptedStatus(params[c].kind)
        THEN /\ size = 0 /\ next_link = None
             /\ lpc' = [lpc EXCEPT ![c] = "raised"]
             /\ outcome' = [outcome EXCEPT ![c] =
                              Outcome(MapError(status_code), status_code,
                                      ErrorModel(status_code, body_ok))]
             /\ UNCHANGED <<pages, yielded>>
        ELSE /\ HasLink(next_link) => (next_link[1] = number + 1 /\ number < MaxPages)
             /\ pages' = [pages EXCEPT ![c] =
                            Append(@, [number |-> number, size |-> size,
                                       next_link |-> next_link])]
             /\ yielded' = [yielded EXCEPT ![c] = @ \o ItemsOf(number, size)]
             /\ lpc' = [lpc EXCEPT ![c] = "iterating"]
             /\ outcome' = [outcome EXCEPT ![c].status_code = status_code]
  /\ UNCHANGED <<params, poller, initialReqs, pollReqs, saved, nbegins, service,
                 seen, waits, outstanding, abandoned, pageReqs>>
  /\ UNCHANGED <<avars, tvars, cvars>>

\* The pipeline raises instead of answering the page request (line 125).
PageError(c) ==
  /\ lpc[c] = "page_wait"
  /\ lpc' = [lpc EXCEPT ![c] = "raised"]
  /\ outcome' = [outcome EXCEPT ![c] = Outcome("ServiceRequestError", 0, "none")]
  /\ UNCHANGED <<params, poller, initialReqs, pollReqs, saved, nbegins, service,
                 seen, waits, outstanding, abandoned>>
  /\ UNCHANGED <<avars, pvars, tvars, cvars>>

\* The consumer asks for more and the pager, after a page whose continuation
\* token is None, ends the iteration.
EndIteration(c) ==
  /\ lpc[c] = "iterating"
  /\ pages[c] # <<>> /\ Continuation(c) = None
  /\ lpc' = [lpc EXCEPT ![c] = "returned"]
  /\ UNCHANGED <<params, poller, initialReqs, pollReqs, outcome, saved, nbegins,
                 service, seen, waits, outstanding, abandoned>>
  /\ UNCHANGED <<avars, pvars, tvars, cvars>>

LNext ==
  \/ \E c \in Calls :
       \/ \E kind \in {"create", "delete"}, polling \in Pollings,
             polling_interval \in Intervals, given \in {"absent", "empty", "saved"} :
            Begin(c, kind, polling, polling_interval, given)
       \/ \E response \in InitialResponses : InitialResponse(c, response)
       \/ InitialError(c)
       \/ AwaitResult(c)
       \/ DelayElapsed(c)
       \/ \E retry_after \in RetryAfters : PollResponse(c, retry_after)
       \/ PollError(c)
       \/ Abandon(c)
       \/ TakeToken(c)
       \/ \E kind \in PlainKinds : Call(c, kind)
       \/ \E status_code \in StatusCodes, body_ok \in BOOLEAN :
            OpResponse(c, status_code, body_ok)
       \/ OpError(c)
       \/ CallList(c)
       \/ RequestPage(c)
       \/ \E status_code \in StatusCodes, body_ok \in BOOLEAN,
             size \in 0..MaxItems, next_link \in Links :
            PageResponse(c, status_code, body_ok, size, next_link)
       \/ PageError(c)
       \/ EndIteration(c)
  \/ \E o \in Operations, state \in TerminalStates : ServiceFinishes(o, state)

(***************************************************************************)
(* AttestationToken.validate_token with the checks of the claims: the      *)
(* validity window of a token against the clock                            *)
(***************************************************************************)
MaxTime == 3
MaxSkew == 1

\* The clock runs from 0 until every token is out of its window.
ClockEnd == MaxTime + MaxSkew + 1

\* The claims of a token: not-before and expiry times, nbf no later than exp.
ClaimSets == {cl \in [nbf : 1..MaxTime, exp : 1..MaxTime] : cl.nbf <= cl.exp}
NoClaims == [nbf |-> 0, exp |-> 0]

\* token_validation_options with the expiry check and its tolerance.
ExpiryOptions ==
  [validate_signature : BOOLEAN, validate_expiry : BOOLEAN, skew : 0..MaxSkew]
NoExpiryOptions ==
  [validate_signature |-> FALSE, validate_expiry |-> FALSE, skew |-> 0]

\* The signers the token is validated against.
TrustedSigners == <<FromGenerated("jwk1")>>

\* Faulty variant of InValidityWindow: the tolerance is not applied.
InValidityWindowWithoutSkew(time, claims, skew) ==
  claims.nbf <= time /\ time <= claims.exp

\* The current time is inside [nbf - skew, exp + skew].
InValidityWindow(time, claims, skew) ==
  claims.nbf - skew <= time /\ time <= claims.exp + skew

\* validate_token(options, signers) at the time given: the ways it can end.
\* The structure and signature checks come first; then, when validate_expiry
\* is set, the time must be inside the validity window of the claims.
ValidateToken(tok, claims, opts, signers, time) ==
  IF ~ChecksPass(tok, [validate_signature |-> opts.validate_signature], signers)
  THEN ValidateOutcomes(tok, [validate_signature |-> opts.validate_signature], signers)
  ELSE IF opts.validate_expiry /\ ~InValidityWindow(time, claims, opts.skew)
  THEN {"TokenExpiredError"}
  ELSE {"true"}

\* No token is being validated (the state of this part in the other
\* specifications).
TIdle ==
  /\ now = 0
  /\ presented = [token |-> NoToken, claims |-> NoClaims]
  /\ expiry_options = NoExpiryOptions
  /\ tokenVerdict = "none"

\* A token of the service, with its claims, and the options of the client.
TInit ==
  /\ now = 0
  /\ presented \in [token : Tokens, claims : ClaimSets]
  /\ expiry_options \in ExpiryOptions
  /\ tokenVerdict = "none"

\* validate_token is called at the current time.
Validate ==
  /\ tokenVerdict = "none"
  /\ tokenVerdict' \in ValidateToken(presented.token, presented.claims, expiry_options,
                                TrustedSigners, now)
  /\ UNCHANGED <<now, presented, expiry_options>>
  /\ UNCHANGED <<avars, lvars, cvars>>

\* Time passes.
Tick ==
  /\ now < ClockEnd
  /\ now' = now + 1
  /\ tokenVerdict' = "none"
  /\ UNCHANGED <<presented, expiry_options>>
  /\ UNCHANGED <<avars, lvars, cvars>>

TNext ==
  \/ Validate
  \/ Tick

(***************************************************************************)
(* Several AttestationClient instances: each instance has the lock and the *)
(* signer cache its __init__ created (lines 66-67)                         *)
(***************************************************************************)
NumClients == 2
MaxClientCalls == 3

Clients == 1..NumClients

\* A task of the same event loop is blocked in Lock.acquire(), on whichever
\* client: the thread of the loop is blocked with it.
ThreadBlocked(t) ==
  \E u \in Tasks \ {t} : LoopOf(u) = LoopOf(t) /\ clientPc[u] = "gs_acquire"

\* No client is in use (the state of this part in the other specifications).
CIdle ==
  /\ locks = [k \in Clients |-> 0]
  /\ caches = [k \in Clients |-> None]
  /\ clientPc = [t \in Tasks |-> "idle"]
  /\ onClient = [t \in Tasks |-> 0]
  /\ clientCalls = 0

\* AttestationClient.__init__ of every client.
CInit == CIdle

\* Lines 226-232 on client k, run by task t that has just acquired its lock.
\* Sets locks', clientPc', onClient'.
ClientGetSignersLocked(t, k) ==
  IF CacheMiss(caches[k])
  THEN /\ locks' = [locks EXCEPT ![k] = t]
       /\ clientPc' = [clientPc EXCEPT ![t] = "gs_fetch"]
       /\ onClient' = [onClient EXCEPT ![t] = k]
  ELSE /\ locks' = [locks EXCEPT ![k] = LockAfterWith(t, FALSE)]
       /\ clientPc' = [clientPc EXCEPT ![t] = "idle"]
       /\ onClient' = [onClient EXCEPT ![t] = 0]

\* Task t calls _get_signers of client k (line 225): it takes the lock of
\* that client, or blocks its thread when the lock is held.
ClientGetSigners(t, k) ==
  /\ clientPc[t] = "idle" /\ clientCalls < MaxClientCalls /\ ~ThreadBlocked(t)
  /\ clientCalls' = clientCalls + 1
  /\ IF locks[k] = 0
     THEN ClientGetSignersLocked(t, k)
     ELSE /\ clientPc' = [clientPc EXCEPT ![t] = "gs_acquire"]
          /\ onClient' = [onClient EXCEPT ![t] = k]
          /\ UNCHANGED locks
  /\ UNCHANGED caches
  /\ UNCHANGED <<avars, lvars, tvars>>

\* The thread blocked in the acquire of a client's lock gets it once free.
ClientAcquireLock(t) ==
  /\ clientPc[t] = "gs_acquire" /\ locks[onClient[t]] = 0
  /\ ClientGetSignersLocked(t, onClient[t])
  /\ UNCHANGED <<caches, clientCalls>>
  /\ UNCHANGED <<avars, lvars, tvars>>

\* Lines 227-232 on the client of task t: the request is answered with keys,
\* the cache of that client is set and the with-block left.
ClientFetchResponse(t, keys) ==
  /\ clientPc[t] = "gs_fetch" /\ ~ThreadBlocked(t)
  /\ caches' = [caches EXCEPT ![onClient[t]] = CacheAfterFetch(keys)]
  /\ locks' = [locks EXCEPT ![onClient[t]] = LockAfterWith(t, FirstBad(keys) # 0)]
  /\ clientPc' = [clientPc EXCEPT ![t] = "idle"]
  /\ onClient' = [onClient EXCEPT ![t] = 0]
  /\ UNCHANGED clientCalls
  /\ UNCHANGED <<avars, lvars, tvars>>

\* Line 227 on the client of task t: the request fails.
ClientFetchFail(t) ==
  /\ clientPc[t] = "gs_fetch" /\ ~ThreadBlocked(t)
  /\ locks' = [locks EXCEPT ![onClient[t]] = LockAfterWith(t, TRUE)]
  /\ clientPc' = [clientPc EXCEPT ![t] = "idle"]
  /\ onClient' = [onClient EXCEPT ![t] = 0]
  /\ UNCHANGED <<caches, clientCalls>>
  /\ UNCHANGED <<avars, lvars, tvars>>

CNext ==
  \E t \in Tasks :
    \/ \E k \in Clients : ClientGetSigners(t, k)
    \/ ClientAcquireLock(t)
    \/ \E keys \in KeyLists : ClientFetchResponse(t, keys)
    \/ ClientFetchFail(t)

vars == <<avars, lvars, tvars, cvars>>

Init == AInit /\ LInit /\ TIdle /\ CIdle

\* One AttestationClient used by the tasks.
Spec == Init /\ [][ANext]_vars

InitLRO == AInit /\ options.validate_signature /\ LInit /\ TIdle /\ CIdle

\* begin_create / begin_delete calls and their pollers.
SpecLRO == InitLRO /\ [][LNext]_vars

InitToken == AInit /\ options.validate_signature /\ LInit /\ TInit /\ CIdle

\* validate_token applied to the tokens of the service as time passes.
SpecToken == InitToken /\ [][TNext]_vars

InitClients == AInit /\ options.validate_signature /\ LInit /\ TIdle /\ CInit

\* The tasks calling _get_signers on several clients.
SpecClients == InitClients /\ [][CNext]_vars

(***************************************************************************)
(* Properties                                                              *)
(***************************************************************************)
\* One signer for every key of keys, in the order of the service.
FullSigners(keys) == [i \in 1..Len(keys) |-> FromGenerated(keys[i])]

\* The call that ended last got its signers from _get_signers.
GotSigners == result.res.kind \in {"signers", "AttestationResponse"}

\* C1: callers that entered _get_signers before any fetch had settled all
\* return the fully populated list of the fetch that filled the cache (so
\* the same list, and never a shorter or empty one).
C1_ConcurrentCallersGetFullList ==
  (result.early /\ GotSigners) =>
    /\ populatedFrom # None
    /\ result.res.signers = FullSigners(populatedFrom[1])

\* C2: a task suspended on the signing-certificates request inside
\* _get_signers is never kept from resuming by another task of its event
\* loop: no task of that loop is blocked in the acquire of the lock it holds.
C2_FetchingTaskCanResume ==
  \A t \in Tasks : pc[t] = "gs_fetch" => ~LoopBlocked(t)

\* C3: whenever the cache is not None and the lock is free, the cache holds
\* exactly one signer for every key of the fetch that populated it, in order.
C3_CacheNeverPartial ==
  (signing_certificates # None /\ statelock = 0) =>
    /\ populatedFrom # None
    /\ signing_certificates[1] = FullSigners(populatedFrom[1])

\* C4: the cache starts as None, becomes a list only by a fetch of
\* _get_signers that got its response, the first one, and once it is a list
\* no step of any operation makes it None again or changes its contents.
C4_CacheSetOnceAndKept ==
  /\ signing_certificates = None
  /\ [][/\ signing_certificates # None => signing_certificates' = signing_certificates
        /\ (signing_certificates = None /\ signing_certificates' # None) =>
             (gsSucceeded = 0 /\ gsSucceeded' = 1)]_vars

\* C4 witness: the cache is populated and an operation that does not use it
\* (attest_tpm, get_openidmetadata or close) has ended since.
C4_Witness ==
  signing_certificates # None /\ result.res.kind = "value"

\* C5: at most one fetch of _get_signers ever gets a response; a call issues
\* at most one request, exactly one when it is suspended on a miss, and a
\* request of _get_signers is only ever in flight while the cache is None.
C5_AtMostOneFetch ==
  /\ gsSucceeded <= 1
  /\ result.fetches <= 1
  /\ \A t \in Tasks :
       /\ fetches[t] <= 1
       /\ pc[t] = "gs_fetch" =>
            (signing_certificates = None /\ fetches[t] = 1 /\ statelock = t)
       /\ pc[t] # "gs_fetch" => fetches[t] = 0

\* C5 witness: after the one fetch, a call got its signers from the cache
\* without any request.
C5_Witness ==
  gsSucceeded = 1 /\ GotSigners /\ result.fetches = 0

\* The call that ended last is a _get_signers whose fetch failed.
LastFetchFailed ==
  result.res = Raised("HttpResponseError") /\ result.fetches = 1

\* C6: when the fetch inside _get_signers has failed, the service error has
\* reached the caller, the cache is still None and the lock is not left
\* held: it is free, or held by a task performing a new fetch.
C6_FailedFetchLeavesNothingBehind ==
  LastFetchFailed =>
    /\ signing_certificates = None
    /\ statelock # 0 => pc[statelock] = "gs_fetch"

\* C6 witness: after a failed fetch another call is fetching again.
C6_Witness ==
  LastFetchFailed /\ \E t \in Tasks : pc[t] = "gs_fetch" /\ statelock = t

\* C7: an AttestationResponse is only handed over for a token that passes
\* every check enabled in the client's options, against the signers of the
\* cache that _get_signers returned.
C7_ResponseOnlyAfterValidation ==
  result.res.kind = "AttestationResponse" =>
    /\ signing_certificates = Some(result.res.signers)
    /\ ChecksPass(result.res.token, options, result.res.signers)

\* C7 witness: an attest call returned a response with signature validation on.
C7_Witness ==
  result.res.kind = "AttestationResponse" /\ options.validate_signature

\* C8: a begin_* call given a continuation token sends no initial request,
\* and the poller it returns is the one resumed from the token.
C8_ResumeSendsNoInitialRequest ==
  \A c \in Calls :
    (lpc[c] # "new" /\ params[c].continuation_token # None) =>
      /\ initialReqs[c] = 0
      /\ lpc[c] # "initial_wait"
      /\ outcome[c].begin = "poller" =>
           (poller[c].resumed /\ poller[c].initial_response = None)

\* C8 witness: the second begin_* call resumed a poller from the token.
C8_Witness ==
  \E c \in Calls : nbegins = 2 /\ poller[c].resumed /\ initialReqs[c] = 0

\* C9: a poller of begin_create whose initial response shows the operation
\* finished is done and Succeeded from the start and never polls.
C9_FinishedInitialResponseNeverPolls ==
  \A c \in Calls :
    (/\ params[c].kind = "create"
     /\ poller[c].initial_response # None
     /\ poller[c].initial_response[1].finished) =>
      /\ Done(poller[c]) /\ poller[c].status = "Succeeded"
      /\ pollReqs[c] = 0
      /\ lpc[c] \in {"ready", "finished"}

\* C9 witness: result() of such a poller, built with the default polling,
\* returned the instance.
C9_Witness ==
  \E c \in Calls :
    /\ params[c].kind = "create" /\ params[c].polling = "True"
    /\ poller[c].initial_response # None
    /\ poller[c].initial_response[1].finished
    /\ lpc[c] = "finished" /\ outcome[c].result = "Instance"

\* C10: with polling=False and no continuation token the call sends exactly
\* the initial request and returns a poller on the non-polling method, which
\* is Succeeded at once and never polls, whatever the initial response shows.
C10_NoPollingOnlyInitialRequest ==
  \A c \in Calls :
    (/\ params[c].polling = "False"
     /\ params[c].continuation_token = None
     /\ outcome[c].begin = "poller") =>
      /\ initialReqs[c] = 1 /\ pollReqs[c] = 0
      /\ poller[c].method = "AsyncNoPolling"
      /\ poller[c].status = "Succeeded"
      /\ lpc[c] \in {"ready", "finished"}

\* C10 witness: begin_delete with polling=False was answered 202 Accepted and
\* result() of its poller has returned.
C10_Witness ==
  \E c \in Calls :
    /\ params[c].polling = "False" /\ params[c].continuation_token = None
    /\ poller[c].initial_response # None
    /\ poller[c].initial_response[1].status_code = 202
    /\ lpc[c] = "finished"

\* C11: the status of a poller is always one of NotStarted, InProgress,
\* Succeeded, Failed, Canceled; as long as the poller stays in the call slot
\* its status only moves forward along NotStarted, InProgress, terminal;
\* and from a terminal status it never changes and no poll is issued.
C11_PollerStateMachine ==
  /\ [](\A c \in Calls : poller[c].status \in PollerStates)
  /\ [][nbegins' = nbegins =>
         \A c \in Calls :
           /\ poller[c].status \in TerminalStates =>
                /\ poller'[c].status = poller[c].status
                /\ pollReqs'[c] = pollReqs[c]
           /\ poller'[c].status # poller[c].status =>
                \/ /\ poller[c].status = "NotStarted"
                   /\ poller'[c].status \in {"InProgress"} \cup TerminalStates
                \/ /\ poller[c].status = "InProgress"
                   /\ poller'[c].status \in TerminalStates]_vars

\* C11 witness: a poller that was InProgress over two polls has been told
\* the operation was canceled.
C11_Witness ==
  \E c \in Calls :
    /\ poller[c].status = "Canceled" /\ pollReqs[c] = 2
    /\ Len(seen[c]) = 3 /\ lpc[c] = "finished"

\* The output of get_long_running_output for the kind of operation.
OutputOf(kind) == IF kind = "create" THEN "Instance" ELSE "None"

ScriptedRun(c) ==
  /\ params[c].polling = "True" /\ params[c].polling_interval = Some(2)
  /\ poller[c].initial_response # None
  /\ abandoned # poller[c].operation
  /\ seen[c] = <<Shown("InProgress", Some(1)), Shown("InProgress", None),
                 Shown("Succeeded", None)>>

PollAnswers ==
  {Shown("InProgress", ra) : ra \in RetryAfters}
    \cup {Shown(state, None) : state \in TerminalStates}

\* The poller p after it has polled against the answers of script, in
\* order, until it is done or the script is used up.
RECURSIVE Run(_, _)
Run(p, script) ==
  IF Done(p) \/ script = <<>> THEN p
  ELSE Run(Polled(p, script[1].status, script[1].retry_after), Tail(script))

\* The poller a begin_* call with the keywords of call c returns when it is
\* given the continuation token of the poller of call c.
ResumedFromOwnToken(c) ==
  FromContinuationToken(
    PollingMethod(params[c].kind, params[c].polling,
                  LroDelay(params[c].polling_interval)),
    ContinuationTokenOf(poller[c]))

ExpectedDelay(c) ==
  LET last == seen[c][Len(seen[c])]
  IN IF last.retry_after # None THEN last.retry_after[1]
     ELSE IF params[c].polling_interval # None THEN params[c].polling_interval[1]
     ELSE ConfigPollingInterval

C17_PollErrorEndsTheWait ==
  /\ [](\A c \in Calls :
          outcome[c].result = "HttpResponseError" =>
            /\ lpc[c] = "finished" /\ outstanding[c] = 0
            /\ poller[c].status = "InProgress"
            /\ pollReqs[c] = Len(waits[c]))
  /\ [][\A c \in Calls :
          (outcome[c].result # "HttpResponseError"
             /\ outcome'[c].result = "HttpResponseError") =>
            /\ lpc[c] = "poll_wait" /\ lpc'[c] = "finished"
            /\ pollReqs'[c] = pollReqs[c]]_vars

\* C17 witness: the second poll of a poller raised.
C17_Witness ==
  \E c \in Calls :
    /\ outcome[c].result = "HttpResponseError"
    /\ pollReqs[c] = 2 /\ Len(seen[c]) = 2

RECURSIVE ItemsInPageOrder(_)
ItemsInPageOrder(ps) ==
  IF ps = <<>> THEN <<>>
  ELSE ItemsInPageOrder(SubSeq(ps, 1, Len(ps) - 1))
         \o [i \in 1..ps[Len(ps)].size |-> <<ps[Len(ps)].number, i>>]

\* A page that links to no other: next_link absent or empty.
LastOfChain(page) == page.next_link = None \/ page.next_link = Some(0)

\* C20: consuming the sequence returned by list_by_account over a chain of
\* pages linked by next-links yields every item of every page exactly once,
\* in page order and in order within each page, with exactly one request per
\* page; the iteration ends after the first page whose next_link is absent or
\* empty and no page is requested after it; a page request answered with a
\* status other than 200 ends the iteration with an error.
C20_PagedListing ==
  /\ [](\A c \in Calls :
          params[c].kind = "list_by_account" =>
            /\ \A i \in 1..Len(pages[c]) : pages[c][i].number = i
            /\ \A i \in 1..(Len(pages[c]) - 1) : ~LastOfChain(pages[c][i])
            /\ yielded[c] = ItemsInPageOrder(pages[c])
            /\ \A i, j \in 1..Len(yielded[c]) : i # j => yielded[c][i] # yielded[c][j]
            /\ lpc[c] = "iterating" => pageReqs[c] = Len(pages[c])
            /\ lpc[c] = "page_wait" => pageReqs[c] = Len(pages[c]) + 1
            /\ lpc[c] = "returned" =>
                 /\ pages[c] # <<>> /\ LastOfChain(pages[c][Len(pages[c])])
                 /\ pageReqs[c] = Len(pages[c])
                 /\ outcome[c].begin = "AsyncItemPaged"
            /\ outcome[c].status_code \notin {0, 200} =>
                 /\ lpc[c] = "raised"
                 /\ pageReqs[c] = Len(pages[c]) + 1
                 /\ outcome[c].result = "none")
  /\ [][\A c \in Calls :
          /\ pageReqs'[c] = pageReqs[c] + 1 =>
               pages[c] = <<>> \/ ~LastOfChain(pages[c][Len(pages[c])])
          /\ (nbegins' = nbegins /\ lpc[c] \in {"raised", "returned"}) =>
               UNCHANGED <<pages[c], yielded[c], pageReqs[c], lpc[c]>>]_vars

\* Three pages of 2, 2 and 1 items, linked by next-links, consumed to the
\* end: five items, three requests.
C20_Witness ==
  \E c \in Calls :
    /\ params[c].kind = "list_by_account"
    /\ lpc[c] = "returned"
    /\ Len(pages[c]) = 3
    /\ pages[c][1].size = 2 /\ pages[c][2].size = 2 /\ pages[c][3].size = 1
    /\ yielded[c] = <<(<<1, 1>>), (<<1, 2>>), (<<2, 1>>), (<<2, 2>>), (<<3, 1>>)>>
    /\ pageReqs[c] = 3

\* C24: whatever the continuation_token keyword is (absent or None, a
\* non-empty string, the empty string), begin_create / begin_delete either
\* issue the initial request and, once it is accepted, return a fresh poller
\* built from its response, or issue no initial request and return a poller
\* resumed from the token; no value makes the call skip the initial request
\* and then build a fresh poller from a response it never obtained.
C24_BeginFreshOrResumed ==
  \A c \in Calls :
    params[c].kind \in {"create", "delete"} =>
      /\ outcome[c].begin # "UnboundLocalError"
      /\ initialReqs[c] = 0 =>
           (outcome[c].begin = "poller" /\ poller[c].resumed)
      /\ outcome[c].begin = "poller" =>
           \/ /\ initialReqs[c] = 1 /\ ~poller[c].resumed
              /\ poller[c].initial_response # None
           \/ /\ initialReqs[c] = 0 /\ poller[c].resumed
              /\ poller[c].initial_response = None

\* C25: without a continuation token begin_create returns a poller only if
\* the initial PUT was answered 201, and begin_delete only if the initial
\* DELETE was answered 200, 202 or 204; for any other initial status (200 or
\* 202 on create included) the call raises before a poller exists, and no
\* poll request is ever issued for the call.
C25_PollerOnlyAfterAcceptedInitial ==
  \A c \in Calls :
    (params[c].kind \in {"create", "delete"} /\ params[c].continuation_token = None) =>
      LET status_code == outcome[c].status_code
          answered == IF params[c].kind = "create" THEN status_code = 201
                      ELSE status_code \in {200, 202, 204}
      IN /\ (outcome[c].begin = "poller" \/ poller[c] # NoPoller) =>
              (answered /\ initialReqs[c] = 1)
         /\ pollReqs[c] > 0 => (answered /\ outcome[c].begin = "poller")
         /\ (status_code # 0 /\ ~answered) =>
              /\ lpc[c] = "raised"
              /\ outcome[c].begin \notin {"poller", "none"}
              /\ poller[c] = NoPoller
              /\ pollReqs[c] = 0 /\ outstanding[c] = 0

\* begin_create answered 200: the call has raised with no poller and no poll.
C25_Witness ==
  \E c \in Calls :
    /\ params[c].kind = "create" /\ params[c].continuation_token = None
    /\ outcome[c].status_code = 200
    /\ lpc[c] = "raised" /\ outcome[c].begin = "HttpResponseError"
    /\ pollReqs[c] = 0

SignedByMember(tok, signers) ==
  \E i \in 1..Len(signers) : signers[i].key_id = tok.signedBy

\* C22: for every non-empty signer set, validate_token returns true for a
\* token signed by a member of the set (the other enabled checks passing)
\* and fails for a token signed by a key that is not in the set, by a
\* token validation error; so the attest call returns a response in the
\* first case and raises in the second.
C22_SignatureDecidesValidation ==
  (/\ validated # NoValidation
   /\ options.validate_signature
   /\ validated.token.wellFormed
   /\ validated.signers # <<>>) =>
     IF SignedByMember(validated.token, validated.signers)
     THEN /\ validated.verdict = "true"
          /\ result.res = Returned("AttestationResponse", validated.signers,
                                   validated.token)
     ELSE /\ validated.verdict \in {"false", "TokenValidationError"}
          /\ result.res.kind = "error"
          /\ result.res.err \in {"TokenValidationError",
                                 "AttestationTokenValidationException"}

\* An attest call whose token was signed by a key outside the non-empty
\* signer set has raised the validation error.
C22_Witness ==
  /\ options.validate_signature
  /\ validated.signers # <<>>
  /\ validated.token.wellFormed
  /\ ~SignedByMember(validated.token, validated.signers)
  /\ result.res = Raised("TokenValidationError")

\* The step ends the call of task t in _get_signers' caller: the signers
\* were obtained from the cache, the token tok was validated against them,
\* and a response was built only for a token found valid.
ValidatedThenAnswered(tok) ==
  /\ signing_certificates' # None
  /\ validated'.signers = signing_certificates'[1]
  /\ validated'.token = tok /\ tok \in Tokens
  /\ result'.res.kind = "AttestationResponse" <=> validated'.verdict = "true"
  /\ result'.res.kind \in {"AttestationResponse", "error"}

\* The step ends the call with an error and none of the later steps done: no
\* token validated, no response, the cache as it was.
AbortedBeforeValidation ==
  /\ validated' = NoValidation
  /\ result'.res.kind = "error"

\* C26: within an attest_sgx_enclave / attest_open_enclave call the steps
\* come in the order attestation request, _get_signers, validate_token,
\* construction of the response, and a failure of a step ends the call with
\* none of the later steps done; a failed attestation request causes no
\* signing-certificates fetch and leaves the signer cache and the lock as
\* they were.
C26_AttestStepsInOrder ==
  [][\A t \in Tasks :
       /\ (pc[t] = "idle" /\ op'[t] \in AttestOps) =>
            /\ pc'[t] = "attest_wait"
            /\ UNCHANGED <<statelock, signing_certificates, fetches, validated,
                           result, gsSucceeded>>
       /\ (op[t] \in AttestOps /\ pc[t] = "attest_wait" /\ pc'[t] # "attest_wait") =>
            \/ /\ pc'[t] \in {"gs_acquire", "gs_fetch"}
               /\ token'[t] \in Tokens
               /\ UNCHANGED <<signing_certificates, validated, result>>
            \/ /\ pc'[t] = "idle"
               /\ signing_certificates # None
               /\ ValidatedThenAnswered(validated'.token)
               /\ UNCHANGED <<signing_certificates, statelock>>
            \/ /\ pc'[t] = "idle"
               /\ AbortedBeforeValidation
               /\ result'.fetches = 0
               /\ UNCHANGED <<statelock, signing_certificates, fetches, gsSucceeded,
                              settled, populatedFrom>>
       /\ (op[t] \in AttestOps /\ pc[t] = "gs_acquire" /\ pc'[t] # "gs_acquire") =>
            \/ /\ pc'[t] = "gs_fetch"
               /\ UNCHANGED <<signing_certificates, validated, result, token>>
            \/ /\ pc'[t] = "idle"
               /\ ValidatedThenAnswered(token[t])
               /\ UNCHANGED signing_certificates
       /\ (op[t] \in AttestOps /\ pc[t] = "gs_fetch" /\ pc'[t] # "gs_fetch") =>
            /\ pc'[t] = "idle"
            /\ \/ ValidatedThenAnswered(token[t])
               \/ AbortedBeforeValidation]_vars

\* An attest call has gone through all its steps: its _get_signers fetched
\* the certificates, the token was validated and the response handed over.
C26_Witness ==
  /\ result.fetches = 1
  /\ validated.verdict = "true"
  /\ result.res.kind = "AttestationResponse"
  /\ signing_certificates = Some(validated.signers)

\* C27: an attest call whose attestation request succeeded obtains the
\* signers through _get_signers whatever the token validation options are:
\* it takes the lock or waits for it, with the cache None it always issues
\* the signing-certificates request, the token is validated against the
\* list of the cache, and a failure of the fetch fails the attest call also
\* when signature validation is disabled.
C27_AttestAlwaysGetsSigners ==
  /\ [](\A t \in Tasks :
          (op[t] \in AttestOps /\ pc[t] = "gs_fetch") =>
            (signing_certificates = None /\ fetches[t] = 1 /\ statelock = t))
  /\ [](validated # NoValidation =>
          signing_certificates = Some(validated.signers))
  /\ [][\A t \in Tasks :
          /\ (op[t] \in AttestOps /\ pc[t] = "attest_wait" /\ token'[t] \in Tokens) =>
               /\ statelock # 0 => pc'[t] = "gs_acquire"
               /\ (statelock = 0 /\ signing_certificates = None) =>
                    (pc'[t] = "gs_fetch" /\ fetches'[t] = 1 /\ statelock' = t)
          /\ (op[t] \in AttestOps /\ pc[t] = "attest_wait" /\ pc'[t] = "idle"
                /\ result'.res.kind = "AttestationResponse") =>
               (statelock = 0 /\ signing_certificates # None)
          /\ (op[t] \in AttestOps /\ pc[t] = "gs_fetch" /\ pc'[t] = "idle"
                /\ signing_certificates' = None) =>
               (result'.res.kind = "error" /\ validated' = NoValidation)]_vars

\* With signature validation disabled an attest call is suspended on the
\* signing-certificates request, after an earlier fetch has failed.
C27_Witness ==
  /\ ~options.validate_signature
  /\ LastFetchFailed
  /\ \E t \in Tasks :
       op[t] \in AttestOps /\ pc[t] = "gs_fetch" /\ token[t] \in Tokens

\* C28: get_signing_certificates, get_openidmetadata, attest_tpm and close
\* never take the signer-cache lock and leave the cache as it is;
\* get_signing_certificates issues its request on every call, with the
\* cache populated or not, and returns a list built from the answer without
\* storing it; none of the four validates a token or reads the signers.
C28_PlainOperationsLeaveCacheAlone ==
  /\ [](\A t \in Tasks :
          op[t] \in PlainOps =>
            (pc[t] = "plain_wait" /\ statelock # t /\ fetches[t] = 0
               /\ token[t] = NoToken))
  /\ [][\A t \in Tasks :
          /\ (pc[t] = "idle" /\ op'[t] \in PlainOps) =>
               /\ pc'[t] = "plain_wait"
               /\ UNCHANGED <<statelock, signing_certificates, result, validated,
                              fetches, gsSucceeded, populatedFrom>>
          /\ (op[t] \in PlainOps /\ pc'[t] # pc[t]) =>
               /\ pc'[t] = "idle"
               /\ UNCHANGED <<statelock, signing_certificates, gsSucceeded,
                              populatedFrom, settled>>
               /\ validated' = NoValidation
               /\ result'.fetches = 0
               /\ result'.res.kind \in {"signing_certificates", "value", "error"}
               /\ result'.res.token = NoToken
               /\ result'.res.kind = "signing_certificates" =>
                    op[t] = "get_signing_certificates"
               /\ op[t] # "get_signing_certificates" => result'.res.signers = <<>>]_vars

\* get_signing_certificates has returned a list that is not the list of the
\* populated cache: it came from a request of its own and was not stored.
C28_Witness ==
  /\ signing_certificates # None
  /\ result.res.kind = "signing_certificates"
  /\ result.res.signers # signing_certificates[1]
  /\ statelock = 0

\* Task t is inside _get_signers: blocked in the acquire of the lock or
\* suspended on the fetch.
InsideGetSigners(t) == pc[t] \in {"gs_acquire", "gs_fetch"}

\* C29: the signer-cache lock is held by at most one task, and only by a
\* task that is inside _get_signers (suspended on its fetch); whenever no
\* task is inside _get_signers the lock is free, however the calls ended:
\* by a return, by an error of the fetch or of a key conversion, or by the
\* cancellation of the task suspended on the fetch.
C29_LockHeldOnlyInsideGetSigners ==
  /\ statelock \in {0} \cup Tasks
  /\ statelock # 0 => pc[statelock] = "gs_fetch"
  /\ \A t \in Tasks : pc[t] = "gs_fetch" => statelock = t
  /\ (\A t \in Tasks : ~InsideGetSigners(t)) => statelock = 0

\* A task was cancelled while suspended on the fetch of _get_signers; no
\* task is inside _get_signers and the lock is free.
C29_Witness ==
  /\ result.res = Raised("CancelledError") /\ result.fetches = 1
  /\ \A t \in Tasks : ~InsideGetSigners(t)
  /\ statelock = 0

\* The checks of validate_token other than the expiry check pass for the
\* token presented.
OtherChecksPass ==
  /\ presented.token.wellFormed
  /\ expiry_options.validate_signature =>
       \E i \in 1..Len(TrustedSigners) :
         TrustedSigners[i].key_id = presented.token.signedBy

\* C23: with expiry validation enabled (the other enabled checks passing),
\* validate_token succeeds exactly when the current time is inside
\* [nbf - skew, exp + skew] and otherwise fails with TokenExpiredError: a
\* token whose exp is in the past by more than the skew fails, one whose exp
\* is in the past by no more than the skew succeeds.
C23_ExpiryWithinSkew ==
  (tokenVerdict # "none" /\ expiry_options.validate_expiry /\ OtherChecksPass) =>
    LET nbf == presented.claims.nbf
        exp == presented.claims.exp
        skew == expiry_options.skew
    IN /\ tokenVerdict \in {"true", "TokenExpiredError"}
       /\ tokenVerdict = "true" <=> (nbf - skew <= now /\ now <= exp + skew)
       /\ now - exp > skew => tokenVerdict = "TokenExpiredError"
       /\ (now >= nbf /\ now > exp /\ now - exp <= skew) => tokenVerdict = "true"

\* A token whose exp is in the past, by no more than the skew, was found valid.
C23_Witness ==
  /\ expiry_options.validate_expiry /\ OtherChecksPass
  /\ expiry_options.skew > 0
  /\ now > presented.claims.exp
  /\ now - presented.claims.exp <= expiry_options.skew
  /\ tokenVerdict = "true"

\* The client on which task t acts in a step: the one it is inside, or the
\* one it enters.
ActingOn(t) == IF onClient[t] # 0 THEN onClient[t] ELSE onClient'[t]

\* A step of a task on one client leaves the cache and the lock of every
\* other client as they were.
OtherClientsUntouched ==
  \A t \in Tasks :
    (clientPc'[t] # clientPc[t] \/ onClient'[t] # onClient[t]) =>
      \A j \in Clients \ {ActingOn(t)} :
        caches'[j] = caches[j] /\ locks'[j] = locks[j]

\* Task t, inside _get_signers of its client, is kept from going on by the
\* fetch in progress on another client: the lock it wants is held for
\* that fetch, or its thread is blocked by a task waiting for that fetch.
WaitsForOtherClient(t) ==
  \/ /\ clientPc[t] = "gs_acquire"
     /\ locks[onClient[t]] # 0
     /\ onClient[locks[onClient[t]]] # onClient[t]
  \/ /\ clientPc[t] = "gs_fetch"
     /\ \E u \in Tasks \ {t} :
          /\ LoopOf(u) = LoopOf(t) /\ clientPc[u] = "gs_acquire"
          /\ onClient[u] # onClient[t]
          /\ locks[onClient[u]] # 0
          /\ clientPc[locks[onClient[u]]] = "gs_fetch"

\* C21: each client owns its signer cache and its lock: populating the cache
\* of one client, or failing to, never changes the cache of another client,
\* and a task calling _get_signers on one client never waits for a fetch in
\* progress on another client.
C21_ClientsOwnCacheAndLock ==
  /\ [][OtherClientsUntouched]_vars
  /\ [](\A t \in Tasks : ~WaitsForOtherClient(t))

\* What does hold of the clients: a step on one client leaves the others'
\* cache and lock alone, a task blocked in an acquire waits for a task of its
\* own client, and a lock is held only for a fetch on its own client.
CachesAndLocksSeparate ==
  /\ [][OtherClientsUntouched]_vars
  /\ [](\A t \in Tasks :
          clientPc[t] = "gs_acquire" =>
            (locks[onClient[t]] # 0 => onClient[locks[onClient[t]]] = onClient[t]))
  /\ [](\A k \in Clients :
          locks[k] # 0 => (clientPc[locks[k]] = "gs_fetch" /\ onClient[locks[k]] = k))

\* C31: the polling strategy of the poller begin_create / begin_delete
\* return is decided by the polling keyword alone, in three exclusive cases:
\* True gives ARM polling with the final state taken via
\* azure-async-operation for begin_create and via location for
\* begin_delete, False gives the non-polling method, any other value is
\* used unchanged as the caller's polling object; and this is the same for
\* a fresh poller and for one resumed from a continuation token.
C31_PollingKeywordDecidesStrategy ==
  \A c \in Calls :
    (params[c].kind \in {"create", "delete"} /\ outcome[c].begin = "poller") =>
      /\ params[c].polling \in {"True", "False", "object"}
      /\ params[c].polling = "True" =>
           /\ poller[c].method = "AsyncARMPolling"
           /\ params[c].kind = "create" =>
                poller[c].final_state_via = "azure-async-operation"
           /\ params[c].kind = "delete" =>
                poller[c].final_state_via = "location"
      /\ params[c].polling = "False" =>
           /\ poller[c].method = "AsyncNoPolling"
           /\ poller[c].final_state_via = "none"
      /\ params[c].polling = "object" =>
           /\ poller[c].method = "object"
           /\ poller[c].final_state_via = "none"
           /\ poller[c].default_delay = 1

\* begin_delete with the default polling has resumed a poller from a
\* continuation token: ARM polling with the final state via location.
C31_Witness ==
  \E c \in Calls :
    /\ params[c].kind = "delete" /\ params[c].polling = "True"
    /\ outcome[c].begin = "poller" /\ poller[c].resumed
    /\ poller[c].method = "AsyncARMPolling"
    /\ poller[c].final_state_via = "location"
    /\ pollReqs[c] = 1

====
